---- MODULE Spec2Model ----
(***************************************************************************)
(* A model of bot.py, the Telegram invoice bot: the PDF pipeline           *)
(* (handle_pdf), the menu and lookup handler (handle_menu), the normalizer *)
(* (clean_invoice_data), the response parser of                            *)
(* extract_invoice_data_with_llm, the record store and object storage it   *)
(* talks to, and the staging file it keeps on local disk.                   *)
(*                                                                         *)
(* Python strings are sequences of one-character strings, so that strip,   *)
(* replace, strptime, strftime and float are computed, not assumed.        *)
(***************************************************************************)
EXTENDS Integers, Sequences, FiniteSets, TLC

VARIABLES
    padsYear,      \* platform: does strftime("%Y") zero-pad years below 1000
    ndata,         \* normalizer harness: the dict object handed to clean_invoice_data
    norig,         \* normalizer harness: the value of that dict before the first call
    nret,          \* normalizer harness: the values returned by the calls so far
    pc,            \* handle_pdf run -> the statement it is at
    loop,          \* the run the event loop is executing (0: none, all are at an await)
    fname,         \* run -> document.file_name
    fs,            \* local disk: file name -> 0 (no file) or the run whose download wrote it
    text,          \* run -> 0 or the run whose bytes pdf_to_text read
    invoice_data,  \* run -> the value extract_invoice_data_with_llm returned
    file_url,      \* run -> the unique name upload_pdf_to_supabase returned its URL for
    storage,       \* object storage bucket: the set of uploaded objects
    uuids,         \* how many uuid4() values have been drawn
    store,         \* table "invoices": the sequence of its rows
    exc,           \* run -> the exception the insert raised (line 175), if any
    replies,       \* run -> the messages sent to the user
    stages,        \* run -> the pipeline states the run has entered, in order
    calls,         \* run -> how often it called the model, the upload and the insert
    awaiting,      \* user -> context.user_data["awaiting_invoice_number"]
    mpc,           \* user -> is a handle_menu of the user between lines 119 and 121
    menu_out       \* the last thing a handle_menu did: its reply, or that it raised

nvars == <<ndata, norig, nret>>
pvars == <<pc, loop, fname, fs, text, invoice_data, file_url, storage, uuids, store, exc,
           replies, stages, calls>>
mvars == <<awaiting, mpc, menu_out>>
vars == <<padsYear, nvars, pvars, mvars>>

-----------------------------------------------------------------------------
(* Python values: None, str, int, float.  A float is the decimal m * 10^-e   *)
(* with no trailing zero in m (the shortest repr, which str/float round-trip). *)

None == [t |-> "null", s |-> <<>>, m |-> 0, e |-> 0]
Str(chars) == [t |-> "str", s |-> chars, m |-> 0, e |-> 0]
PyInt(n) == [t |-> "int", s |-> <<>>, m |-> n, e |-> 0]

RECURSIVE Pow10(_)
Pow10(k) == IF k = 0 THEN 1 ELSE 10 * Pow10(k - 1)

RECURSIVE PyFloat(_, _)
PyFloat(mant, exp) ==
    IF exp > 0 /\ mant % 10 = 0 THEN PyFloat(mant \div 10, exp - 1)
    ELSE [t |-> "float", s |-> <<>>, m |-> mant, e |-> exp]

Whitespace == {" ", "\n", "\t"}
Digits == <<"0", "1", "2", "3", "4", "5", "6", "7", "8", "9">>
IsDigit(c) == \E i \in 1..10 : Digits[i] = c
DigitVal(c) == (CHOOSE i \in 1..10 : Digits[i] = c) - 1

\* str.strip()
RECURSIVE lstrip(_)
lstrip(s) == IF s # <<>> /\ Head(s) \in Whitespace THEN lstrip(Tail(s)) ELSE s
RECURSIVE rstrip(_)
rstrip(s) ==
    IF s # <<>> /\ s[Len(s)] \in Whitespace THEN rstrip(SubSeq(s, 1, Len(s) - 1)) ELSE s
strip(s) == rstrip(lstrip(s))

\* x in s, for a substring x
StartsWith(s, x) == Len(x) <= Len(s) /\ SubSeq(s, 1, Len(x)) = x
Contains(s, x) == \E i \in 0..Len(s) : StartsWith(SubSeq(s, i + 1, Len(s)), x)

\* str.replace(old, new), old non-empty
RECURSIVE replace(_, _, _)
replace(s, old, new) ==
    IF s = <<>> THEN <<>>
    ELSE IF StartsWith(s, old)
         THEN new \o replace(SubSeq(s, Len(old) + 1, Len(s)), old, new)
         ELSE <<Head(s)>> \o replace(Tail(s), old, new)

\* the pieces of s between occurrences of the one-character separator sep
RECURSIVE Split(_, _)
Split(s, sep) ==
    IF \A i \in 1..Len(s) : s[i] # sep THEN <<s>>
    ELSE LET i == CHOOSE j \in 1..Len(s) : s[j] = sep /\ \A k \in 1..(j - 1) : s[k] # sep
         IN <<SubSeq(s, 1, i - 1)>> \o Split(SubSeq(s, i + 1, Len(s)), sep)

AllDigits(s) == s # <<>> /\ \A i \in 1..Len(s) : IsDigit(s[i])

RECURSIVE ToNat(_)
ToNat(s) == IF s = <<>> THEN 0 ELSE 10 * ToNat(SubSeq(s, 1, Len(s) - 1)) + DigitVal(s[Len(s)])

RECURSIVE NatStr(_)
NatStr(n) == IF n < 10 THEN <<Digits[n + 1]>> ELSE NatStr(n \div 10) \o <<Digits[(n % 10) + 1]>>

RECURSIVE ZeroPad(_, _)
ZeroPad(s, width) == IF Len(s) >= width THEN s ELSE ZeroPad(<<"0">> \o s, width)

-----------------------------------------------------------------------------
(* datetime.strptime / strftime, as clean_invoice_data uses them *)

IsLeap(y) == (y % 4 = 0 /\ y % 100 # 0) \/ y % 400 = 0
DaysInMonth(y, mo) ==
    IF mo = 2 THEN (IF IsLeap(y) THEN 29 ELSE 28)
    ELSE IF mo \in {4, 6, 9, 11} THEN 30 ELSE 31

NoDate == [ok |-> FALSE, y |-> 0, mo |-> 0, d |-> 0]

\* the datetime of year/month/day fields matched by %Y, %m, %d: %Y is exactly
\* four digits, %m and %d one or two digits and not zero; datetime() rejects
\* year 0 and a day the month does not have
MakeDate(ys, ms, ds) ==
    IF /\ AllDigits(ys) /\ Len(ys) = 4
       /\ AllDigits(ms) /\ Len(ms) <= 2
       /\ AllDigits(ds) /\ Len(ds) <= 2
       /\ ToNat(ys) >= 1
       /\ ToNat(ms) \in 1..12
       /\ ToNat(ds) >= 1 /\ ToNat(ds) <= DaysInMonth(ToNat(ys), ToNat(ms))
    THEN [ok |-> TRUE, y |-> ToNat(ys), mo |-> ToNat(ms), d |-> ToNat(ds)]
    ELSE NoDate

\* datetime.strptime(s, "%d/%m/%Y")
strptime_dmy(s) ==
    LET p == Split(s, "/") IN IF Len(p) = 3 THEN MakeDate(p[3], p[2], p[1]) ELSE NoDate

\* datetime.strptime(s, "%Y-%m-%d")
strptime_ymd(s) ==
    LET p == Split(s, "-") IN IF Len(p) = 3 THEN MakeDate(p[1], p[2], p[3]) ELSE NoDate

\* dt.strftime("%Y-%m-%d"): %m and %d are always two digits; %Y is what the C
\* library prints, four digits or (glibc) the bare year
strftime(dt) ==
    (IF padsYear THEN ZeroPad(NatStr(dt.y), 4) ELSE NatStr(dt.y))
        \o <<"-">> \o ZeroPad(NatStr(dt.mo), 2) \o <<"-">> \o ZeroPad(NatStr(dt.d), 2)

-----------------------------------------------------------------------------
(* float(s) and str(v), for plain decimal literals (no exponent, inf or nan) *)

NoFloat == [ok |-> FALSE, val |-> None]

float(s) ==
    LET u == strip(s)
        neg == u # <<>> /\ Head(u) = "-"
        body == IF u # <<>> /\ Head(u) \in {"-", "+"} THEN Tail(u) ELSE u
        p == Split(body, ".")
        ip == p[1]
        fp == IF Len(p) = 2 THEN p[2] ELSE <<>>
        mant == ToNat(ip \o fp)
    IN IF /\ Len(p) <= 2
          /\ ip \o fp # <<>>
          /\ \A i \in 1..Len(ip) : IsDigit(ip[i])
          /\ \A i \in 1..Len(fp) : IsDigit(fp[i])
       THEN [ok |-> TRUE, val |-> PyFloat(IF neg THEN 0 - mant ELSE mant, Len(fp))]
       ELSE NoFloat

Abs(n) == IF n < 0 THEN 0 - n ELSE n

\* str(value)
str(v) ==
    IF v.t = "str" THEN v.s
    ELSE IF v.t = "null" THEN <<"N", "o", "n", "e">>
    ELSE LET sign == IF v.m < 0 THEN <<"-">> ELSE <<>>
             a == Abs(v.m)
         IN IF v.t = "int" THEN sign \o NatStr(a)
            ELSE sign \o NatStr(a \div Pow10(v.e)) \o <<".">>
                 \o (IF v.e = 0 THEN <<"0">> ELSE ZeroPad(NatStr(a % Pow10(v.e)), v.e))

-----------------------------------------------------------------------------
(* clean_invoice_data *)

\* the characters of each key of the record
KeyChars(k) ==
    CASE
       k = "invoice_number" -> <<"i", "n", "v", "o", "i", "c", "e", "_", "n", "u", "m", "b", "e", "r">>
    [] k = "invoice_type" -> <<"i", "n", "v", "o", "i", "c", "e", "_", "t", "y", "p", "e">>
    [] k = "date_issued" -> <<"d", "a", "t", "e", "_", "i", "s", "s", "u", "e", "d">>
    [] k = "period_start" -> <<"p", "e", "r", "i", "o", "d", "_", "s", "t", "a", "r", "t">>
    [] k = "period_end" -> <<"p", "e", "r", "i", "o", "d", "_", "e", "n", "d">>
    [] k = "seller_name" -> <<"s", "e", "l", "l", "e", "r", "_", "n", "a", "m", "e">>
    [] k = "seller_vat" -> <<"s", "e", "l", "l", "e", "r", "_", "v", "a", "t">>
    [] k = "provider_name" -> <<"p", "r", "o", "v", "i", "d", "e", "r", "_", "n", "a", "m", "e">>
    [] k = "provider_vat" -> <<"p", "r", "o", "v", "i", "d", "e", "r", "_", "v", "a", "t">>
    [] k = "description" -> <<"d", "e", "s", "c", "r", "i", "p", "t", "i", "o", "n">>
    [] k = "amount_net" -> <<"a", "m", "o", "u", "n", "t", "_", "n", "e", "t">>
    [] k = "amount_vat" -> <<"a", "m", "o", "u", "n", "t", "_", "v", "a", "t">>
    [] k = "amount_total" -> <<"a", "m", "o", "u", "n", "t", "_", "t", "o", "t", "a", "l">>
    [] k = "original_invoice" -> <<"o", "r", "i", "g", "i", "n", "a", "l", "_", "i", "n", "v", "o", "i", "c", "e">>
    [] k = "vat_percent" -> <<"v", "a", "t", "_", "p", "e", "r", "c", "e", "n", "t">>
    [] k = "file_url" -> <<"f", "i", "l", "e", "_", "u", "r", "l">>
    [] k = "original_file_name" -> <<"o", "r", "i", "g", "i", "n", "a", "l", "_", "f", "i", "l", "e", "_", "n", "a", "m", "e">>

Fields == {"invoice_number", "invoice_type", "date_issued", "period_start", "period_end",
           "seller_name", "seller_vat", "provider_name", "provider_vat", "description",
           "amount_net", "amount_vat", "amount_total", "original_invoice", "vat_percent"}

\* "date" in key or "issued" in key or "period" in key
IsDateKey(k) ==
    \/ Contains(KeyChars(k), <<"d", "a", "t", "e">>)
    \/ Contains(KeyChars(k), <<"i", "s", "s", "u", "e", "d">>)
    \/ Contains(KeyChars(k), <<"p", "e", "r", "i", "o", "d">>)

\* key.startswith("amount_")
IsAmountKey(k) == StartsWith(KeyChars(k), <<"a", "m", "o", "u", "n", "t", "_">>)

\* lines 73-80: the date branch
CleanDate(value) ==
    LET dt == IF Contains(value.s, <<"/">>) THEN strptime_dmy(strip(value.s))
              ELSE strptime_ymd(strip(value.s))
    IN IF dt.ok THEN Str(strftime(dt)) ELSE None

\* lines 83-86: the percent branch
CleanPercent(value) ==
    LET f == float(strip(replace(replace(value.s, <<"%">>, <<>>), <<",">>, <<".">>)))
    IN IF f.ok THEN f.val ELSE None

\* lines 89-92: the amount branch
CleanAmount(value) ==
    LET f == float(replace(replace(replace(str(value), <<",">>, <<".">>),
                                   <<"E", "U", "R">>, <<>>), <<" ">>, <<>>))
    IN IF f.ok THEN f.val ELSE None

\* one iteration of the loop of lines 67-92: what data[key] is after it
CleanField(key, value) ==
    LET isStr == value.t = "str"
        truthy == isStr /\ value.s # <<>>
        r1 == IF isStr /\ strip(value.s) = <<>> THEN None ELSE value
        r2 == IF truthy /\ IsDateKey(key) THEN CleanDate(value) ELSE r1
        r3 == IF truthy /\ key = "vat_percent" THEN CleanPercent(value) ELSE r2
    IN IF IsAmountKey(key) /\ value # None THEN CleanAmount(value) ELSE r3

\* the dict after the call (the same object that was passed in, and returned)
clean_invoice_data(data) == [k \in DOMAIN data |-> CleanField(k, data[k])]

-----------------------------------------------------------------------------
(* The normalizer on its own: provisional records as the semantic step can   *)
(* return them (each field a string, a number or null), and calls of          *)
(* clean_invoice_data on the same dict object.                                *)

\* values of the date fields
DateSamples ==
    {Str(<<"3", "1", "/", "1", "2", "/", "2", "0", "2", "4">>),
     Str(<<"2", "0", "2", "4", "-", "1", "2", "-", "3", "1">>),
     Str(<<" ", "2", "0", "2", "4", "-", "1", "-", "5", " ">>),
     Str(<<"3", "0", "/", "0", "2", "/", "2", "0", "2", "4">>),
     Str(<<"0", "9", "9", "9", "-", "0", "1", "-", "0", "1">>),
     Str(<<"0", "1", "/", "0", "2", "/", "0", "9", "9", "9">>),
     Str(<<"n", "/", "a">>),
     Str(<<>>),
     Str(<<" ">>),
     PyInt(20241231),
     None}

\* values of the amount_ fields
AmountSamples ==
    {Str(<<"1", "2", "3", "4", ",", "5", "6", " ", "E", "U", "R">>),
     Str(<<"1", ".", "2", "3", "4", ",", "5", "6", " ", "E", "U", "R">>),
     Str(<<"-", "1", "0", ",", "5", "0">>),
     Str(<<"a", "b", "c">>),
     Str(<<>>),
     Str(<<" ">>),
     PyInt(5),
     PyFloat(123450, 2),
     None}

\* values of vat_percent
PercentSamples ==
    {Str(<<"1", "9", "%">>),
     Str(<<"1", "9", ",", "5", " ", "%">>),
     Str(<<"x">>),
     Str(<<>>),
     PyInt(19),
     PyFloat(195, 1),
     None}

\* values of the other fields
TextSamples ==
    {Str(<<"A", "C", "M", "E">>),
     Str(<<>>),
     Str(<<" ", " ">>),
     PyInt(7),
     None}

ProvisionalRecord(d, a, p, s) ==
    [k \in Fields |->
        IF k \in {"date_issued", "period_start", "period_end"} THEN d
        ELSE IF k \in {"amount_net", "amount_vat", "amount_total"} THEN a
        ELSE IF k = "vat_percent" THEN p
        ELSE s]

ProvisionalRecords ==
    {ProvisionalRecord(d, a, p, s) :
        d \in DateSamples, a \in AmountSamples, p \in PercentSamples, s \in TextSamples}

\* how many times the harness calls clean_invoice_data on one dict
MaxCalls == 2

NormInit ==
    /\ ndata \in ProvisionalRecords
    /\ norig = ndata
    /\ nret = <<>>

\* data = clean_invoice_data(data): the dict is rewritten in place and returned
Normalize ==
    /\ Len(nret) < MaxCalls
    /\ ndata' = clean_invoice_data(ndata)
    /\ nret' = Append(nret, ndata')
    /\ UNCHANGED <<norig, padsYear, pvars, mvars>>

-----------------------------------------------------------------------------
(* The response parser of extract_invoice_data_with_llm.  A response is a     *)
(* sequence of tokens: braces and brackets, "kv" for the key/value pairs of an *)
(* object, "num" / "null" for a JSON scalar, "txt" for prose around the JSON.  *)

\* the records the key/value pairs of a response can spell out
Payload(number) ==
    [k \in Fields |->
        IF k = "invoice_number" THEN Str(number)
        ELSE IF k = "date_issued" THEN Str(<<"3", "1", "/", "1", "2", "/", "2", "0", "2", "4">>)
        ELSE IF k = "amount_total" THEN Str(<<"1", "0", "0", "0", ",", "0", "0", " ", "E", "U", "R">>)
        ELSE None]

\* the second one as a response may spell it, with a space before the number
InvoiceNumbers == {<<"N", "1">>, <<" ", "N", "2">>}
Payloads == {Payload(n) : n \in InvoiceNumbers}

ResponseShapes ==
    {<<"{", "kv", "}">>,
     <<"txt", "{", "kv", "}", "txt">>,
     <<"txt">>,
     <<"}", "txt", "{">>,
     <<"{", "kv", "}", "txt", "{", "kv", "}">>,
     <<"[", "]">>,
     <<"num">>,
     <<"null">>}

\* what the chat completion call comes back with: an exception, or a message
Completions ==
    {[raised |-> TRUE, content |-> <<>>, payload |-> Payload(<<"N", "1">>)]}
    \cup {[raised |-> FALSE, content |-> c, payload |-> p] : c \in ResponseShapes, p \in Payloads}

\* Python values that are not None, str, int or float
Dict(d) == [kind |-> "dict", d |-> d]
NonDict(kind) == [kind |-> kind, d |-> <<>>]
NoData == NonDict("unset")

JsonError == [ok |-> FALSE, val |-> NoData]

\* json.loads(toks)
json_loads(toks, payload) ==
    IF toks = <<"{", "kv", "}">> THEN [ok |-> TRUE, val |-> Dict(payload)]
    ELSE IF toks = <<"{", "}">> THEN [ok |-> TRUE, val |-> Dict(<<>>)]
    ELSE IF toks = <<"[", "]">> THEN [ok |-> TRUE, val |-> NonDict("list")]
    ELSE IF toks = <<"num">> THEN [ok |-> TRUE, val |-> NonDict("int")]
    ELSE IF toks = <<"null">> THEN [ok |-> TRUE, val |-> NonDict("None")]
    ELSE JsonError

\* re.search(r"\{.*\}", content, re.DOTALL): from the first "{" to the last "}"
re_search(toks) ==
    LET opens == {i \in 1..Len(toks) : toks[i] = "{"}
        first == CHOOSE i \in opens : \A j \in opens : i <= j
        closes == {i \in 1..Len(toks) : toks[i] = "}" /\ i > first}
        last == CHOOSE i \in closes : \A j \in closes : j <= i
    IN IF opens = {} \/ closes = {} THEN [found |-> FALSE, group |-> <<>>]
       ELSE [found |-> TRUE, group |-> SubSeq(toks, first, last)]

\* lines 36-51: the value returned, or raised = TRUE when an exception leaves
\* the function (the API call's, ValueError, or the second json.loads's)
extract_invoice_data_with_llm(completion) ==
    LET direct == json_loads(completion.content, completion.payload)
        match == re_search(completion.content)
        second == json_loads(match.group, completion.payload)
    IN IF completion.raised THEN [raised |-> TRUE, data |-> NoData]
       ELSE IF direct.ok THEN [raised |-> FALSE, data |-> direct.val]
       ELSE IF match.found /\ second.ok THEN [raised |-> FALSE, data |-> second.val]
       ELSE [raised |-> TRUE, data |-> NoData]

-----------------------------------------------------------------------------
(* The table "invoices" of the record store, as insert_invoice and the      *)
(* except branch of handle_pdf see it.                                       *)

\* row.get(k)
Get(row, k) == IF k \in DOMAIN row THEN row[k] ELSE None

\* the exception of a failed insert: has it args, and does str(args[0]) hold
\* "duplicate key value violates unique constraint"
NoError == [raised |-> FALSE, hasArgs |-> FALSE, signature |-> FALSE]
DuplicateKeyError == [raised |-> TRUE, hasArgs |-> TRUE, signature |-> TRUE]
OtherErrors ==
    {[raised |-> TRUE, hasArgs |-> TRUE, signature |-> FALSE],
     [raised |-> TRUE, hasArgs |-> FALSE, signature |-> FALSE]}

\* the unique constraint of the table on invoice_number
KeyExists(table, row) ==
    /\ Get(row, "invoice_number") # None
    /\ \E i \in 1..Len(table) : Get(table[i], "invoice_number") = Get(row, "invoice_number")

\* an insert that overwrites the row of the same invoice_number (an upsert)
TableUpsert(table, row) ==
    {[error |-> e, table |-> table] : e \in OtherErrors}
    \cup (IF KeyExists(table, row)
          THEN {[error |-> NoError,
                 table |-> [i \in 1..Len(table) |->
                    IF Get(table[i], "invoice_number") = Get(row, "invoice_number")
                    THEN row ELSE table[i]]]}
          ELSE {[error |-> NoError, table |-> Append(table, row)]})

\* supabase.table("invoices").insert(row).execute(): the possible results
TableInsert(table, row) ==
    {[error |-> e, table |-> table] : e \in OtherErrors}
    \cup (IF KeyExists(table, row)
          THEN {[error |-> DuplicateKeyError, table |-> table]}
          ELSE {[error |-> NoError, table |-> Append(table, row)]})

\* line 177 with a signature text no error of the store carries
IsDuplicateWrongText(e) == e.hasArgs /\ FALSE

\* line 177 without the test of the text
IsDuplicateAnyArgs(e) == e.hasArgs

\* line 177
IsDuplicate(e) == e.hasArgs /\ e.signature

-----------------------------------------------------------------------------
(* handle_pdf.  The handler is a coroutine: it gives up the event loop only at *)
(* its awaits (get_file, download_to_drive, reply_text).  pdf_to_text, the     *)
(* chat completion, the storage upload and the table insert are blocking calls, *)
(* so from the end of the download to the next reply the run holds the loop.    *)
(* filters.Document.PDF (line 201) passes only application/pdf documents, so   *)
(* lines 146-148 never run; the Telegram calls themselves are taken to succeed. *)
(* The dispatcher is not part of bot.py: handlers of different updates may     *)
(* overlap at their awaits here, which covers both an Application that handles *)
(* updates concurrently and one that handles them one at a time (the library's *)
(* default for the builder call of line 198, whose runs are the behaviours in  *)
(* which no handler starts while another is in progress).                      *)

\* how many documents are submitted
NumRuns == 2
Runs == 1..NumRuns

\* document.file_name: a name, or None when the sender gave none
FileNames == {Str(<<"a", ".", "p", "d", "f">>), None}
NoName == <<>>
\* the file_name of a run that has not started
NoFile == Str(<<>>)

\* line 151
file_path(file_name) == <<".", "/">> \o str(file_name)
FilePaths == {file_path(f) : f \in FileNames}

\* f"{SUPABASE_URL}/storage/v1/object/public/{STORAGE_BUCKET}/{unique_name}"
UrlPrefix == <<"p", "u", "b", "l", "i", "c", "/">>
PublicUrl(unique_name) == UrlPrefix \o unique_name

\* f"{uuid.uuid4()}_{file_name}": the n-th uuid drawn is written n
UniqueName(n, file_name) == NatStr(n) \o <<"_">> \o str(file_name)

Append1(f, r, x) == [f EXCEPT ![r] = Append(@, x)]

\* the handler is over: its local variables go with its frame
Return(r, how) ==
    /\ pc' = [pc EXCEPT ![r] = how]
    /\ text' = [text EXCEPT ![r] = 0]
    /\ invoice_data' = [invoice_data EXCEPT ![r] = NoData]
    /\ file_url' = [file_url EXCEPT ![r] = NoName]
    /\ exc' = [exc EXCEPT ![r] = NoError]

\* an uncaught exception leaves the handler
Raise(r) == Return(r, "raised") /\ loop' = 0

PipeInit ==
    /\ pc = [r \in Runs |-> "idle"]
    /\ loop = 0
    /\ fname = [r \in Runs |-> NoFile]
    /\ fs = [f \in FilePaths |-> 0]
    /\ text = [r \in Runs |-> 0]
    /\ invoice_data = [r \in Runs |-> NoData]
    /\ file_url = [r \in Runs |-> NoName]
    /\ storage = {}
    /\ uuids = 0
    /\ store = <<>>
    /\ exc = [r \in Runs |-> NoError]
    /\ replies = [r \in Runs |-> <<>>]
    /\ stages = [r \in Runs |-> <<>>]
    /\ calls = [r \in Runs |-> [llm |-> 0, upload |-> 0, insert |-> 0]]

\* lines 145-153: a document arrives (runs are numbered in the order of
\* arrival); up to the await of get_file
Start(r) ==
    /\ pc[r] = "idle" /\ loop = 0
    /\ UNCHANGED <<padsYear, nvars, mvars, calls>>
    /\ \A q \in Runs : q < r => pc[q] # "idle"
    /\ \E f \in FileNames : fname' = [fname EXCEPT ![r] = f]
    /\ pc' = [pc EXCEPT ![r] = "get_file"]
    /\ stages' = Append1(stages, r, "Received")
    /\ UNCHANGED <<loop, fs, text, invoice_data, file_url, storage, uuids, store, exc, replies>>

\* line 153 resumes; up to the await of download_to_drive
GetFile(r) ==
    /\ pc[r] = "get_file" /\ loop = 0
    /\ UNCHANGED <<padsYear, nvars, mvars, calls>>
    /\ pc' = [pc EXCEPT ![r] = "download"]
    /\ UNCHANGED <<loop, fname, fs, text, invoice_data, file_url, storage, uuids, store,
                   exc, replies, stages>>

\* line 154 completes: the bytes are written to ./file_name and the run goes on
Download(r) ==
    /\ pc[r] = "download" /\ loop = 0
    /\ UNCHANGED <<padsYear, nvars, mvars, calls>>
    /\ fs' = [fs EXCEPT ![file_path(fname[r])] = r]
    /\ pc' = [pc EXCEPT ![r] = "pdf_to_text"]
    /\ loop' = r
    /\ UNCHANGED <<fname, text, invoice_data, file_url, storage, uuids, store, exc, replies,
                   stages>>

\* line 157: pdfplumber opens the file; any failure is uncaught
PdfToText(r) ==
    /\ pc[r] = "pdf_to_text" /\ loop = r
    /\ UNCHANGED <<padsYear, nvars, mvars, calls>>
    /\ \E ok \in BOOLEAN :
        IF ok /\ fs[file_path(fname[r])] # 0
        THEN /\ text' = [text EXCEPT ![r] = fs[file_path(fname[r])]]
             /\ stages' = Append1(stages, r, "TextExtracted")
             /\ pc' = [pc EXCEPT ![r] = "extract"]
             /\ UNCHANGED <<loop, invoice_data, file_url, exc>>
        ELSE Raise(r) /\ UNCHANGED stages
    /\ UNCHANGED <<fname, fs, storage, uuids, store, replies>>

\* lines 160-165 with the record cleaned as soon as it is extracted
ExtractThenClean(r) ==
    /\ pc[r] = "extract" /\ loop = r
    /\ UNCHANGED <<padsYear, nvars, mvars>>
    /\ calls' = [calls EXCEPT ![r].llm = @ + 1]
    /\ \E completion \in Completions :
        LET res == extract_invoice_data_with_llm(completion)
        IN IF res.raised
           THEN /\ replies' = Append1(replies, r, "llm_error")
                /\ stages' = Append1(stages, r, "ExtractionFailed")
                /\ pc' = [pc EXCEPT ![r] = "reply_llm_error"]
                /\ loop' = 0
                /\ UNCHANGED invoice_data
           ELSE /\ invoice_data' = [invoice_data EXCEPT ![r] =
                        IF res.data.kind = "dict" THEN Dict(clean_invoice_data(res.data.d))
                        ELSE res.data]
                /\ stages' = [stages EXCEPT ![r] = @ \o <<"FieldsExtracted", "Normalized">>]
                /\ pc' = [pc EXCEPT ![r] = "upload"]
                /\ UNCHANGED <<replies, loop>>
    /\ UNCHANGED <<fname, fs, text, file_url, storage, uuids, store, exc>>

\* lines 160-165 with a second call of the model after a first failure
ExtractRetry(r) ==
    /\ pc[r] = "extract" /\ loop = r
    /\ UNCHANGED <<padsYear, nvars, mvars>>
    /\ calls' = [calls EXCEPT ![r].llm = @ + 1]
    /\ \E completion \in Completions :
        LET res == extract_invoice_data_with_llm(completion)
        IN IF res.raised /\ calls[r].llm = 0
           THEN UNCHANGED <<invoice_data, stages, pc, replies, loop>>
           ELSE IF res.raised
           THEN /\ replies' = Append1(replies, r, "llm_error")
                /\ stages' = Append1(stages, r, "ExtractionFailed")
                /\ pc' = [pc EXCEPT ![r] = "reply_llm_error"]
                /\ loop' = 0
                /\ UNCHANGED invoice_data
           ELSE /\ invoice_data' = [invoice_data EXCEPT ![r] = res.data]
                /\ stages' = Append1(stages, r, "FieldsExtracted")
                /\ pc' = [pc EXCEPT ![r] = "upload"]
                /\ UNCHANGED <<replies, loop>>
    /\ UNCHANGED <<fname, fs, text, file_url, storage, uuids, store, exc>>

\* lines 160-165, up to the await of reply_text in the except branch
Extract(r) ==
    /\ pc[r] = "extract" /\ loop = r
    /\ UNCHANGED <<padsYear, nvars, mvars>>
    /\ calls' = [calls EXCEPT ![r].llm = @ + 1]
    /\ \E completion \in Completions :
        LET res == extract_invoice_data_with_llm(completion)
        IN IF res.raised
           THEN /\ replies' = Append1(replies, r, "llm_error")
                /\ stages' = Append1(stages, r, "ExtractionFailed")
                /\ pc' = [pc EXCEPT ![r] = "reply_llm_error"]
                /\ loop' = 0
                /\ UNCHANGED invoice_data
           ELSE /\ invoice_data' = [invoice_data EXCEPT ![r] = res.data]
                /\ stages' = Append1(stages, r, "FieldsExtracted")
                /\ pc' = [pc EXCEPT ![r] = "upload"]
                /\ UNCHANGED <<replies, loop>>
    /\ UNCHANGED <<fname, fs, text, file_url, storage, uuids, store, exc>>

\* upload_pdf_to_supabase returning the URL of a name it has not uploaded
UploadUrlOnly(r) ==
    /\ pc[r] = "upload" /\ loop = r
    /\ UNCHANGED <<padsYear, nvars, mvars>>
    /\ calls' = [calls EXCEPT ![r].upload = @ + 1]
    /\ \E ok \in BOOLEAN :
        IF ok /\ fs[file_path(fname[r])] # 0
        THEN LET unique_name == UniqueName(uuids + 1, fname[r])
             IN /\ uuids' = uuids + 1
                /\ file_url' = [file_url EXCEPT ![r] = PublicUrl(unique_name)]
                /\ stages' = Append1(stages, r, "Uploaded")
                /\ pc' = [pc EXCEPT ![r] = "attach"]
                /\ UNCHANGED <<loop, text, invoice_data, exc, storage>>
        ELSE Raise(r) /\ UNCHANGED <<storage, uuids, stages>>
    /\ UNCHANGED <<fname, fs, store, replies>>

\* upload_pdf_to_supabase (lines 53-64), called at line 168: any failure is uncaught
Upload(r) ==
    /\ pc[r] = "upload" /\ loop = r
    /\ UNCHANGED <<padsYear, nvars, mvars>>
    /\ calls' = [calls EXCEPT ![r].upload = @ + 1]
    /\ \E ok \in BOOLEAN :
        IF ok /\ fs[file_path(fname[r])] # 0
        THEN LET unique_name == UniqueName(uuids + 1, fname[r])
             IN /\ storage' = storage \cup
                        {[name |-> unique_name, content |-> fs[file_path(fname[r])], by |-> r]}
                /\ uuids' = uuids + 1
                /\ file_url' = [file_url EXCEPT ![r] = PublicUrl(unique_name)]
                /\ stages' = Append1(stages, r, "Uploaded")
                /\ pc' = [pc EXCEPT ![r] = "attach"]
                /\ UNCHANGED <<loop, text, invoice_data, exc>>
        ELSE Raise(r) /\ UNCHANGED <<storage, uuids, stages>>
    /\ UNCHANGED <<fname, fs, store, replies>>

\* lines 169-170: item assignment, a TypeError on anything but a dict
Attach(r) ==
    /\ pc[r] = "attach" /\ loop = r
    /\ UNCHANGED <<padsYear, nvars, mvars, calls>>
    /\ IF invoice_data[r].kind = "dict"
       THEN /\ invoice_data' = [invoice_data EXCEPT ![r] = Dict(
                    [k \in DOMAIN @.d \cup {"file_url", "original_file_name"} |->
                        IF k = "file_url" THEN Str(file_url[r])
                        ELSE IF k = "original_file_name" THEN fname[r]
                        ELSE @.d[k]])]
            /\ pc' = [pc EXCEPT ![r] = "insert"]
            /\ UNCHANGED <<loop, text, file_url, exc>>
       ELSE Raise(r)
    /\ UNCHANGED <<fname, fs, storage, uuids, store, replies, stages>>

\* insert_invoice, line 96: the dict of the run is cleaned in place
InsertClean(r) ==
    /\ pc[r] = "insert" /\ loop = r
    /\ UNCHANGED <<padsYear, nvars, mvars, calls>>
    /\ invoice_data' = [invoice_data EXCEPT ![r] = Dict(clean_invoice_data(@.d))]
    /\ stages' = Append1(stages, r, "Normalized")
    /\ pc' = [pc EXCEPT ![r] = "execute"]
    /\ UNCHANGED <<loop, fname, fs, text, file_url, storage, uuids, store, exc, replies>>

\* lines 174-193 with the uploaded object deleted again when the insert fails
InsertExecuteRollback(r) ==
    /\ pc[r] = "execute" /\ loop = r
    /\ UNCHANGED <<padsYear, nvars, mvars>>
    /\ calls' = [calls EXCEPT ![r].insert = @ + 1]
    /\ \E res \in TableInsert(store, invoice_data[r].d) :
        /\ store' = res.table
        /\ exc' = [exc EXCEPT ![r] = res.error]
        /\ IF ~res.error.raised
           THEN /\ stages' = Append1(stages, r, "Persisted")
                /\ replies' = Append1(replies, r, "saved")
                /\ pc' = [pc EXCEPT ![r] = "reply_saved"]
                /\ UNCHANGED storage
           ELSE /\ stages' = Append1(stages, r,
                        IF IsDuplicate(res.error) THEN "DuplicateRejected"
                        ELSE "PersistenceFailed")
                /\ replies' = Append1(replies, r,
                        IF IsDuplicate(res.error) THEN "already_exists" ELSE "db_error")
                /\ pc' = [pc EXCEPT ![r] = "reply_failed"]
                /\ storage' = {o \in storage : o.by # r}
    /\ loop' = 0
    /\ UNCHANGED <<fname, fs, text, invoice_data, file_url, uuids>>

\* insert_invoice, line 97, and lines 175-182 or 187-193, up to the await of
\* the reply_text that follows
InsertExecute(r) ==
    /\ pc[r] = "execute" /\ loop = r
    /\ UNCHANGED <<padsYear, nvars, mvars>>
    /\ calls' = [calls EXCEPT ![r].insert = @ + 1]
    /\ \E res \in TableInsert(store, invoice_data[r].d) :
        /\ store' = res.table
        /\ exc' = [exc EXCEPT ![r] = res.error]
        /\ IF ~res.error.raised
           THEN /\ stages' = Append1(stages, r, "Persisted")
                /\ replies' = Append1(replies, r, "saved")
                /\ pc' = [pc EXCEPT ![r] = "reply_saved"]
           ELSE IF IsDuplicate(res.error)
           THEN /\ stages' = Append1(stages, r, "DuplicateRejected")
                /\ replies' = Append1(replies, r, "already_exists")
                /\ pc' = [pc EXCEPT ![r] = "reply_failed"]
           ELSE /\ stages' = Append1(stages, r, "PersistenceFailed")
                /\ replies' = Append1(replies, r, "db_error")
                /\ pc' = [pc EXCEPT ![r] = "reply_failed"]
    /\ loop' = 0
    /\ UNCHANGED <<fname, fs, text, invoice_data, file_url, storage, uuids>>

AtReply == {"reply_llm_error", "reply_failed", "reply_saved"}

\* the handler without the os.remove of line 164
RemoveNotAfterLlmError(r) ==
    /\ pc[r] \in AtReply /\ loop = 0
    /\ UNCHANGED <<padsYear, nvars, mvars, calls>>
    /\ IF pc[r] = "reply_llm_error"
       THEN Return(r, "returned") /\ UNCHANGED fs
       ELSE IF fs[file_path(fname[r])] # 0
       THEN /\ fs' = [fs EXCEPT ![file_path(fname[r])] = 0]
            /\ Return(r, "returned")
       ELSE Return(r, "raised") /\ UNCHANGED fs
    /\ UNCHANGED <<loop, fname, storage, uuids, store, replies, stages>>

\* the reply is sent and the run resumes: os.remove(file_path) at line 164, 183
\* or 195 (FileNotFoundError when the file is gone), then the handler is over
Remove(r) ==
    /\ pc[r] \in AtReply /\ loop = 0
    /\ UNCHANGED <<padsYear, nvars, mvars, calls>>
    /\ IF fs[file_path(fname[r])] # 0
       THEN /\ fs' = [fs EXCEPT ![file_path(fname[r])] = 0]
            /\ Return(r, "returned")
       ELSE Return(r, "raised") /\ UNCHANGED fs
    /\ UNCHANGED <<loop, fname, storage, uuids, store, replies, stages>>

Ended(r) == pc[r] \in {"returned", "raised"}
Staged(r) == pc[r] \notin {"idle", "get_file", "download"}

handle_pdf(r) ==
    \/ Start(r) \/ GetFile(r) \/ Download(r) \/ PdfToText(r) \/ Extract(r)
    \/ Upload(r) \/ Attach(r) \/ InsertClean(r) \/ InsertExecute(r) \/ Remove(r)

-----------------------------------------------------------------------------
(* handle_menu.  It awaits only its replies; the select of line 129 is a     *)
(* blocking call.  The branch of the menu button awaits its reply before it  *)
(* sets the flag (lines 119-121), so other handlers may run in between; the  *)
(* other branches do nothing after their reply.                              *)

Users == {"u1", "u2"}

\* the text of the menu button (lines 101 and 118), transliterated
MenuButton == <<"z", "a", "g", "r", "u", "z", "i", "t", " ", "i", "n", "v", "o", "j", "s">>

\* the text messages users send: the button, "N1" and " N2"
Texts == {MenuButton, <<"N", "1">>, <<" ", "N", "2">>}

\* what handle_menu did last: the reply it sent to which text
NoOutcome == [kind |-> "none", text |-> <<>>, document |-> None, filename |-> None]
Reply(kind, message) == [kind |-> kind, text |-> message, document |-> None, filename |-> None]
ReplyDocument(message, document, filename) ==
    [kind |-> "document", text |-> message, document |-> document, filename |-> filename]
\* an uncaught exception left the handler
Raised(message) == Reply("raised", message)

MenuInit ==
    /\ awaiting = [u \in Users |-> FALSE]
    /\ mpc = [u \in Users |-> "idle"]
    /\ menu_out = NoOutcome

\* bool(value) of a Python value
Truthy(v) ==
    IF v.t = "null" THEN FALSE
    ELSE IF v.t = "str" THEN v.s # <<>>
    ELSE v.m # 0

\* line 129: select("*").eq("invoice_number", invoice_number)
select(table, invoice_number) ==
    SelectSeq(table, LAMBDA row : Get(row, "invoice_number") = Str(invoice_number))

\* lines 118-119: the button's text; up to the await of reply_text
Press(u) ==
    /\ loop = 0 /\ mpc[u] = "idle"
    /\ mpc' = [mpc EXCEPT ![u] = "asked"]
    /\ menu_out' = Reply("ask_number", MenuButton)
    /\ UNCHANGED <<awaiting, padsYear, nvars, pvars>>

\* lines 121-122: the reply is sent, the flag is set
SetFlag(u) ==
    /\ loop = 0 /\ mpc[u] = "asked"
    /\ awaiting' = [awaiting EXCEPT ![u] = TRUE]
    /\ mpc' = [mpc EXCEPT ![u] = "idle"]
    /\ UNCHANGED <<menu_out, padsYear, nvars, pvars>>

\* lines 130-139: the document of the first row, or the not-found text
Answer(message, invoice_number, data) ==
    IF data # <<>>
    THEN LET file_url_ == Get(data[1], "file_url")
             original_file_name ==
                IF Truthy(Get(data[1], "original_file_name"))
                THEN Get(data[1], "original_file_name")
                ELSE Str(invoice_number \o <<".", "p", "d", "f">>)
         IN ReplyDocument(message, file_url_, original_file_name)
    ELSE Reply("not_found", message)

\* lines 125-139 with result.data[0] read before result.data is tested
LookupFirstRow(u, message) ==
    /\ loop = 0 /\ message # MenuButton /\ awaiting[u]
    /\ LET invoice_number == strip(message)
           data == select(store, invoice_number)
       IN /\ awaiting' = [awaiting EXCEPT ![u] = FALSE]
          /\ menu_out' = IF data = <<>> THEN Raised(message)
                         ELSE Answer(message, invoice_number, data)
    /\ UNCHANGED <<mpc, padsYear, nvars, pvars>>

\* lines 125-139 with the flag cleared only when a record is found
LookupKeepFlag(u, message) ==
    /\ loop = 0 /\ message # MenuButton /\ awaiting[u]
    /\ LET invoice_number == strip(message)
           data == select(store, invoice_number)
       IN /\ awaiting' = [awaiting EXCEPT ![u] = data = <<>>]
          /\ menu_out' = Answer(message, invoice_number, data)
    /\ UNCHANGED <<mpc, padsYear, nvars, pvars>>

\* lines 125-139: the flag is cleared and the table queried; up to the await
\* of the reply, after which the handler returns
Lookup(u, message) ==
    /\ loop = 0 /\ message # MenuButton /\ awaiting[u]
    /\ LET invoice_number == strip(message)
       IN /\ awaiting' = [awaiting EXCEPT ![u] = FALSE]
          /\ menu_out' = Answer(message, invoice_number, select(store, invoice_number))
    /\ UNCHANGED <<mpc, padsYear, nvars, pvars>>

\* line 142: any other text
Other(u, message) ==
    /\ loop = 0 /\ message # MenuButton /\ ~awaiting[u]
    /\ menu_out' = Reply("send_pdf", message)
    /\ UNCHANGED <<awaiting, mpc, padsYear, nvars, pvars>>

handle_menu(u) ==
    \/ Press(u) \/ SetFlag(u)
    \/ \E message \in Texts : Lookup(u, message) \/ Other(u, message)

-----------------------------------------------------------------------------
(* Specifications *)

\* the normalizer harness at rest, in the pipeline's specification
NormIdle ==
    /\ ndata = ProvisionalRecord(None, None, None, None)
    /\ norig = ndata
    /\ nret = <<>>

\* the dates of Payloads have four-digit years, which every platform prints alike
Init == padsYear = FALSE /\ PipeInit /\ NormIdle /\ MenuInit
Next == \E r \in Runs : handle_pdf(r)
Spec == Init /\ [][Next]_vars

\* documents and text messages together
NextBot ==
    \/ \E r \in Runs : handle_pdf(r)
    \/ \E u \in Users : handle_menu(u)
SpecBot == Init /\ [][NextBot]_vars

InitNorm == padsYear \in BOOLEAN /\ PipeInit /\ NormInit /\ MenuInit
NextNorm == Normalize
SpecNorm == InitNorm /\ [][NextNorm]_vars

-----------------------------------------------------------------------------
(* Properties *)

Last(s) == IF s = <<>> THEN "none" ELSE s[Len(s)]
InSeq(x, s) == \E i \in 1..Len(s) : s[i] = x
Moved(r) == pc'[r] # pc[r]

TerminalStates == {"Persisted", "ExtractionFailed", "PersistenceFailed", "DuplicateRejected"}
FailureStates == {"ExtractionFailed", "PersistenceFailed", "DuplicateRejected"}

\* the objects run r uploaded
ObjectsOf(r) == {o \in storage : o.by = r}
\* the stored rows that carry the URL of an upload of run r
RowsOf(r) ==
    {i \in 1..Len(store) :
        \E o \in ObjectsOf(r) : Get(store[i], "file_url") = Str(PublicUrl(o.name))}

UniqueNumbers ==
    \A i, j \in 1..Len(store) :
        i # j => Get(store[i], "invoice_number") # Get(store[j], "invoice_number")

\* the insert of run r, made when a row with its invoice_number is in the table
SecondInsert(r) ==
    pc[r] = "execute" /\ Moved(r) /\ KeyExists(store, invoice_data[r].d)

\* C1: the table never holds two rows with the same invoice_number, whatever
\* the interleaving of the runs; an insert of a number the table already holds
\* adds no row, and the store's unique-constraint error ends the run in
\* DuplicateRejected with the already-exists reply.
C1_UniqueInvoiceNumber ==
    /\ []UniqueNumbers
    /\ [][\A r \in Runs : SecondInsert(r) =>
            /\ store' = store
            /\ exc'[r].raised
            /\ ~InSeq("Persisted", stages'[r])
            /\ exc'[r] = DuplicateKeyError =>
                 Last(stages'[r]) = "DuplicateRejected" /\ Last(replies'[r]) = "already_exists"]_vars

\* two runs extracted the same number: one is stored, the other was rejected
C1_Witness ==
    \E r1, r2 \in Runs :
        /\ r1 # r2
        /\ Last(stages[r1]) = "Persisted" /\ Last(stages[r2]) = "DuplicateRejected"
        /\ replies[r2] = <<"already_exists">>
        /\ RowsOf(r1) # {} /\ RowsOf(r2) = {}
        /\ Len(store) = 1

CountIn(s, S) == Cardinality({i \in 1..Len(s) : s[i] \in S})
NoRepeat(s) == \A i, j \in 1..Len(s) : i # j => s[i] # s[j]

\* C2: a run that is over has entered exactly one of the four terminal states,
\* as its last state, and has entered no state twice.
C2_OneTerminalState ==
    \A r \in Runs : Ended(r) =>
        /\ CountIn(stages[r], TerminalStates) = 1
        /\ Last(stages[r]) \in TerminalStates
        /\ NoRepeat(stages[r])

\* C3: when a run that staged its document is over, the file it staged is gone.
C3_StagedFileDeleted ==
    \A r \in Runs : Ended(r) /\ Staged(r) => fs[file_path(fname[r])] # r

\* C4: a run whose semantic extraction failed uploads nothing and inserts
\* nothing, its steps leave the table and the bucket as they were, the user is
\* sent the cause, and once the run is over its staged file is gone.
C4_ExtractionFailureStoresNothing ==
    /\ [](\A r \in Runs : InSeq("ExtractionFailed", stages[r]) =>
            /\ ObjectsOf(r) = {} /\ RowsOf(r) = {}
            /\ ~InSeq("Uploaded", stages[r]) /\ ~InSeq("Persisted", stages[r])
            /\ Last(stages[r]) = "ExtractionFailed"
            /\ replies[r] = <<"llm_error">>
            /\ (Ended(r) => fs[file_path(fname[r])] # r))
    /\ [][\A r \in Runs : InSeq("ExtractionFailed", stages'[r]) /\ Moved(r) =>
            store' = store /\ storage' = storage]_vars

\* a run whose extraction failed has replied, removed its file and returned
C4_Witness ==
    \E r \in Runs :
        /\ pc[r] = "returned" /\ Last(stages[r]) = "ExtractionFailed"
        /\ fs[file_path(fname[r])] = 0 /\ replies[r] = <<"llm_error">>

\* C5: an insert that fails after the upload leaves the table as it was, the
\* uploaded object stays in the bucket, and once the run is over its staged
\* file is gone.
C5_FailedInsertKeepsUpload ==
    /\ [](\A r \in Runs : Last(stages[r]) \in {"PersistenceFailed", "DuplicateRejected"} =>
            /\ RowsOf(r) = {}
            /\ ObjectsOf(r) # {}
            /\ (~Ended(r) => \E o \in ObjectsOf(r) : PublicUrl(o.name) = file_url[r])
            /\ (Ended(r) => fs[file_path(fname[r])] # r))
    /\ [][\A r \in Runs : pc[r] = "execute" /\ pc'[r] = "reply_failed" =>
            store' = store /\ storage' = storage]_vars

\* a run was rejected as a duplicate and is over: its object is in the bucket
\* with no row for it, and its staged file is gone
C5_Witness ==
    \E r \in Runs :
        /\ pc[r] = "returned" /\ Last(stages[r]) = "DuplicateRejected"
        /\ ObjectsOf(r) # {} /\ RowsOf(r) = {}
        /\ Len(store) = 1 /\ Cardinality(storage) = 2
        /\ fs[file_path(fname[r])] = 0

PipelineOrder ==
    <<"Received", "TextExtracted", "FieldsExtracted", "Normalized", "Uploaded", "Persisted">>
CodeOrder ==
    <<"Received", "TextExtracted", "FieldsExtracted", "Uploaded", "Normalized", "Persisted">>

IsPrefix(s, u) == Len(s) <= Len(u) /\ SubSeq(u, 1, Len(s)) = s
Successes(s) == SelectSeq(s, LAMBDA x : x \notin FailureStates)

\* is the record of run r in normal form (cleaning it changes nothing)
IsNormalized(r) ==
    invoice_data[r].kind = "dict" /\ clean_invoice_data(invoice_data[r].d) = invoice_data[r].d

DateFields == {"date_issued", "period_start", "period_end"}

\* C8: a second call of the normalizer returns what the first returned.
C8_NormalizeIdempotent ==
    Len(nret) >= 2 => nret[2] = nret[1]

\* a valid ISO YYYY-MM-DD date string
IsIsoDate(v) ==
    /\ v.t = "str" /\ Len(v.s) = 10
    /\ v.s[5] = "-" /\ v.s[8] = "-"
    /\ strptime_ymd(v.s).ok

\* C9: in a normalized record each date field is null or a valid ISO
\* YYYY-MM-DD date string.
C9_DatesIsoOrNull ==
    \A i \in 1..Len(nret) : \A k \in DateFields :
        nret[i][k] = None \/ IsIsoDate(nret[i][k])

\* C10: the value extract hands to the rest of the run is a key/value
\* record: a run goes on to the upload, and has uploaded, only with a dict.
C10_OnlyRecordsFlowOn ==
    \A r \in Runs :
        pc[r] \in {"upload", "attach", "insert", "execute"} => invoice_data[r].kind = "dict"

\* a step of handle_menu that is a lookup by user u: it clears u's flag
IsLookup(u) == awaiting[u] /\ ~awaiting'[u]
\* the rows whose invoice_number is the string chars
Matching(chars) ==
    {i \in 1..Len(store) :
        LET v == Get(store[i], "invoice_number") IN v.t = "str" /\ v.s = chars}

\* C11: a lookup that matches no stored record is answered with the not-found
\* text, not with an exception, and every lookup leaves the record store and
\* the object storage as they were.
C11_LookupReadOnly ==
    [][\A u \in Users : IsLookup(u) =>
            /\ store' = store /\ storage' = storage
            /\ (Matching(strip(menu_out'.text)) = {} => menu_out'.kind = "not_found")]_vars

\* a lookup was answered "not found" although the store holds a record
C11_Witness == menu_out.kind = "not_found" /\ store # <<>>

\* the filename a lookup of the number chars is to return for a stored row
FilenameFor(row, chars) ==
    LET F == Get(row, "original_file_name")
    IN IF F.t = "null" THEN Str(chars \o <<".", "p", "d", "f">>) ELSE F

\* C12: a lookup of the invoice_number N of a stored record returns the
\* file_url of that record and its filename, or N.pdf when it has none.
C12_LookupReturnsStored ==
    [][\A u \in Users : IsLookup(u) =>
            \A i \in Matching(menu_out'.text) :
                /\ menu_out'.kind = "document"
                /\ menu_out'.document = Get(store[i], "file_url")
                /\ menu_out'.filename = FilenameFor(store[i], menu_out'.text)]_vars

\* the insert of run r has just failed
InsertFailed(r) == pc[r] = "execute" /\ Moved(r) /\ exc'[r].raised

\* C13: a failed insert puts the run in exactly one failure state:
\* DuplicateRejected with the already-exists reply when the error carries the
\* duplicate-key signature, PersistenceFailed with the cause as reply when not.
C13_FailureClassified ==
    [][\A r \in Runs : InsertFailed(r) =>
            /\ Len(stages'[r]) = Len(stages[r]) + 1
            /\ replies'[r] = Append(replies[r], Last(replies'[r]))
            /\ IF exc'[r].signature
               THEN Last(stages'[r]) = "DuplicateRejected"
                    /\ Last(replies'[r]) = "already_exists"
               ELSE Last(stages'[r]) = "PersistenceFailed"
                    /\ Last(replies'[r]) = "db_error"]_vars

\* an insert failed with an error whose text is not the duplicate-key one: the
\* run is in PersistenceFailed and has sent the cause
C13_Witness ==
    \E r \in Runs :
        /\ pc[r] = "reply_failed" /\ exc[r].hasArgs /\ ~exc[r].signature
        /\ Last(stages[r]) = "PersistenceFailed" /\ replies[r] = <<"db_error">>

\* C14: no step is retried: a run calls the model, the upload and the insert
\* at most once each, and a step is only called after the one before it.
C14_NoRetry ==
    \A r \in Runs :
        /\ calls[r].llm <= 1 /\ calls[r].upload <= 1 /\ calls[r].insert <= 1
        /\ calls[r].insert <= calls[r].upload /\ calls[r].upload <= calls[r].llm

\* a run whose steps all were called, the last one failing, is over
C14_Witness ==
    \E r \in Runs :
        /\ Ended(r) /\ Last(stages[r]) = "PersistenceFailed"
        /\ calls[r] = [llm |-> 1, upload |-> 1, insert |-> 1]
        /\ \E q \in Runs : Ended(q) /\ Last(stages[q]) = "ExtractionFailed" /\ calls[q].llm = 1

\* C15: clean_invoice_data is pure: after a call the dict passed in still has
\* the value it had before the call.
C15_NormalizePure == nret # <<>> => ndata = norig

\* C16: whatever pdf_to_text does, the run goes on to the extraction step; a
\* failure of the conversion does not end it.
C16_ConversionFailureCaught ==
    [][\A r \in Runs : pc[r] = "pdf_to_text" /\ Moved(r) => pc'[r] = "extract"]_vars

\* C17: the store changes only by the successful insert of a run, which adds
\* the run's record after the rows already there; no row changes or goes.
C17_StoreAppendOnly ==
    [][store' # store =>
            \E r \in Runs :
                /\ pc[r] = "execute" /\ Moved(r) /\ ~exc'[r].raised
                /\ Last(stages'[r]) = "Persisted"
                /\ store' = Append(store, invoice_data[r].d)]_vars

\* two records are stored and a lookup has sent the document of one
C17_Witness == Len(store) = 2 /\ menu_out.kind = "document"

\* a step in which handle_menu answered a query of the table
LookupStep ==
    /\ menu_out'.kind \in {"not_found", "document"}
    /\ mpc' = mpc
    /\ menu_out' # menu_out \/ awaiting' # awaiting

\* C18: the table is queried only for a text other than the button's, sent by
\* a user whose flag is set, and the step clears that flag and no other; a
\* flag gets set only when the handler of a button press resumes.
C18_LookupGatedByFlag ==
    [][/\ LookupStep =>
            /\ menu_out'.text # MenuButton
            /\ \E u \in Users :
                /\ awaiting[u] /\ ~awaiting'[u]
                /\ \A v \in Users \ {u} : awaiting'[v] = awaiting[v]
       /\ \A u \in Users :
            ~awaiting[u] /\ awaiting'[u] => mpc[u] = "asked" /\ mpc'[u] = "idle"]_vars

\* one user's lookup was answered while the other user's flag stayed set
C18_Witness ==
    \E u, v \in Users :
        /\ u # v /\ ~awaiting[u] /\ awaiting[v]
        /\ menu_out.kind = "not_found" /\ mpc = [w \in Users |-> "idle"]

\* the objects whose URL a stored row carries
ObjectsAt(row) == {o \in storage : Get(row, "file_url") = Str(PublicUrl(o.name))}
\* the objects no row points at, of runs that will not insert any more
Orphans ==
    {o \in storage :
        /\ pc[o.by] \in {"reply_failed", "returned", "raised"}
        /\ \A i \in 1..Len(store) : o \notin ObjectsAt(store[i])}

====
